---- MODULE Spec2Model ----
(***************************************************************************)
(* whisper-push: push-to-talk dictation.                                   *)
(*                                                                         *)
(* The parts of the repository are modelled each with its own             *)
(* specification over a shared set of variables:                           *)
(*   SpecCLI    - interleaved invocations of the command line program      *)
(*                (src/whisper_push.py), coordinating through the lock     *)
(*                file, the audio file and the capture subprocess;         *)
(*   SpecSeq    - the same invocations, run one after the other, in all    *)
(*                three modes (toggle, --status, --stop);                  *)
(*   SpecType   - transcribe_and_type, the streaming paste pipeline;       *)
(*   SpecDaemon - the menu bar daemon (src/macos/menubar-daemon.py) with   *)
(*                its main thread, hold timer threads and worker thread.   *)
(* SpecStop joins SpecSeq and SpecDaemon for the stop transition.          *)
(* SpecFail joins SpecSeq and SpecType for an engine failure during stop.  *)
(* FairSeq is SpecSeq with every invocation kept running (weak fairness).  *)
(* SpecPaste is SpecType for the three variants of the paste step          *)
(* (src/whisper_push.py, src/whisper-push.py, src/whisper-push-macos.py).  *)
(* SpecConfig applies load_config to the configuration files, SpecHotkey   *)
(* applies MenuBarApp.init to the hotkey configurations.                   *)
(***************************************************************************)
EXTENDS Integers, Sequences, FiniteSets, TLC

\* ------------------------------------------------------------------ bounds
\* concurrent command line processes
NProcs == 2
\* capture subprocesses ever spawned
MaxCaptures == 2
\* segments the speech engine produces for one recording
MaxSegs == 3
\* Timer threads of the daemon that exist at the same time
MaxTimers == 2
\* do_transcribe threads of the daemon that exist at the same time
MaxWorkers == 1

\* ------------------------------------------------------- program constants
\* range(20) in stop_recording
PollLimit == 20
\* st_size > 44 in stop_recording
WavHeaderSize == 44

Procs == 1..NProcs
Captures == 1..MaxCaptures
Timers == 1..MaxTimers
Workers == 1..MaxWorkers

VARIABLES
    world,      \* which part of the repository this behaviour runs
    \* ---- command line program: files and subprocesses
    lock,       \* LOCK_FILE: <<>> when absent, else <<text, inode>>
    audio,      \* AUDIO_FILE: <<>> when absent, else <<capture that writes it, size in bytes>>
    cap,        \* capture subprocess: "unborn", "starting", "recording", "stopping", "dead"
    \* ---- command line program: one invocation per process slot
    pc,         \* "done" when no invocation runs in the slot
    mode,       \* "toggle", "status" (--status) or "stop" (--stop)
    pidv,       \* the pid read from the lock file
    polls,      \* rounds of the wait loop of stop_recording done so far
    ret,        \* what is_recording returned: "none", "true", "false"
    sret,       \* what stop_recording returned: "none", "true", "false"
    child,      \* process.pid of the capture this invocation spawned
    fd,         \* the lock file this invocation has open for writing
    rc,         \* exit code of the invocation
    ecalls,     \* the capture whose audio this invocation passed to the engine, or 0
    pasted,     \* this invocation pasted at least one segment
    eres,       \* how transcribe_and_type ended: "none", "text", "empty", "fail"
    note,       \* the last notification of the invocation, "none" when it raised none
    notifications, \* config["notifications"]
    entry       \* the lock as is_recording of an invocation that runs alone finds it, else "any"

VARIABLES
    \* ---- transcribe_and_type
    variant,    \* the script: "linux" (whisper_push.py), "popen" (whisper-push.py), "macos" (whisper-push-macos.py)
    tpc,        \* "off", "save", "next", "set", "key", "settle", "restore", "done", "raised"
    copier,     \* the texts of the wl-copy processes launched and not yet run
    clip,       \* the clipboard
    clip0,      \* the clipboard before the session
    oldclip,    \* old_clipboard
    stream,     \* the texts of the segments the engine produces, in order
    failAt,     \* the engine raises when this segment is requested; 0: it never raises
    pos,        \* segments taken from the engine so far
    yielded,    \* segments transcribe_segments has yielded so far
    typed,      \* typed_segments
    cur,        \* the text handed to _paste_text
    app,        \* what the focused application received, paste by paste
    out         \* the returned text

VARIABLES
    \* ---- menu bar daemon (src/macos/menubar-daemon.py)
    hotkey_mode,    \* "toggle" or "hold", as MenuBarApp.init leaves it
    state,          \* State: "loading", "idle", "recording", "processing"
    model_loading,  \* _model_loading: the loader thread has not finished
    hold_pending,   \* MenuBarApp.hold_pending
    hold_active,    \* MenuBarApp.hold_active
    hold_timer,     \* MenuBarApp._hold_timer: 0 for None, else the Timer
    timer,          \* per Timer thread: "free", "armed", "fired", "then", "then2", "else", "else2", "call", "start"
    mpc,            \* main thread: "loop", or inside "starting" / "stopping"
    wk,             \* per do_transcribe thread: "off", "transcribe", "paste", "finish"
    hasStream,      \* AudioRecorder has the attribute stream
    sactive,        \* AudioRecorder.stream is running
    leak,           \* an InputStream the recorder no longer refers to is running
    recording,      \* AudioRecorder.recording
    frames,         \* AudioRecorder.audio_data is not empty
    stopRes,        \* what recorder.stop() found in the current session: "none", "empty", "audio"
    pasteboard,     \* NSPasteboard.generalPasteboard(): "pre" (as when the session began) or "text"
    \* ---- menu bar daemon: the hold gesture of the user
    held,           \* the modifiers of the hotkey are down
    gtimer,         \* the Timer armed when the modifiers went down, 0 when it is gone
    gphase,         \* that Timer: "none", "armed", "run" (fired), "done"
    blocked,        \* a key-down was handled in this gesture before its Timer fired
    gclean,         \* the gesture began with nothing in flight and no other event came since
    gstarts         \* calls of start_recording in the gesture while only it acted, capped at 2

VARIABLES
    \* ---- load_config
    cprog,      \* the program whose load_config runs: "cli" or "daemon"
    cfile,      \* CONFIG_FILE: [exists, parses, data], data being the keys and values it sets
    cpc,        \* "off", "load", "done"
    config,     \* the dictionary load_config returns
    cnote       \* what load_config reported: "none", "critical" (notify), "printed"

confVars == <<cprog, cfile, cpc, config, cnote>>

VARIABLES
    \* ---- MenuBarApp.init: the hotkey
    hkconf,       \* the configuration: [hotkey_mode, hotkey], hotkey being its parts between the + signs
    hkpc,         \* "off", "init", "done" (init returned), "exit" (sys.exit(1))
    hkmode,       \* MenuBarApp.hotkey_mode
    modifiers,    \* MenuBarApp.modifiers: the set of modifier masks
    key_code,     \* MenuBarApp.key_code, None being -1
    hold_keycode  \* MenuBarApp.hold_keycode, None being -1

hotkeyVars == <<hkconf, hkpc, hkmode, modifiers, key_code, hold_keycode>>

\* the variables of the parts that are modelled as functions of their inputs
auxVars == <<confVars, hotkeyVars>>

daemonVars == <<hotkey_mode, state, model_loading, hold_pending, hold_active, hold_timer,
                timer, mpc, wk, hasStream, sactive, leak, recording, frames, stopRes, pasteboard,
                held, gtimer, gphase, blocked, gclean, gstarts>>

typeVars == <<variant, copier, tpc, clip, clip0, oldclip, stream, failAt, pos, yielded, typed, cur, app, out>>

cliVars == <<lock, audio, cap, pc, mode, pidv, polls, ret, sret, child, fd, rc,
             ecalls, pasted, eres, note, notifications, entry>>
notCLI == <<world, typeVars, daemonVars, auxVars>>
notType == <<world, cliVars, daemonVars, auxVars>>
notDaemon == <<world, cliVars, typeVars, auxVars>>
progAll == <<cliVars, typeVars, daemonVars>>
vars == <<world, cliVars, typeVars, daemonVars, auxVars>>

\* ------------------------------------------------------------ lock file text
Digits == <<"1", "2", "3", "4", "5", "6", "7", "8", "9">>

\* str(process.pid)
StrPid(n) == Digits[n]

\* int(text.strip()): 0 stands for ValueError
ParsePid(s) == IF \E n \in 1..Len(Digits) : Digits[n] = s
               THEN CHOOSE n \in 1..Len(Digits) : Digits[n] = s
               ELSE 0

\* os.kill(pid, 0) succeeds
Alive(c) == c \in Captures /\ cap[c] \in {"starting", "recording", "stopping"}

\* the lock is valid: the file exists and names a live process
LockValid == lock # <<>> /\ Alive(ParsePid(lock[1]))

LockClass == IF lock = <<>> THEN "absent"
             ELSE IF ParsePid(lock[1]) = 0 THEN "garbage"
             ELSE IF Alive(ParsePid(lock[1])) THEN "valid"
             ELSE "stale"

\* AUDIO_FILE.stat().st_size > 44
Viable(size) == size > WavHeaderSize

InProgress(p) == pc[p] # "done"

\* ---------------------------------------------------------------- Init
TypeOff ==
    /\ variant = "linux" /\ copier = {}
    /\ tpc = "off"
    /\ clip = <<>> /\ clip0 = <<>> /\ oldclip = <<>>
    /\ stream = <<>> /\ failAt = 0 /\ pos = 0 /\ yielded = 0
    /\ typed = <<>> /\ cur = <<>> /\ app = <<>> /\ out = <<>>

DaemonOff ==
    /\ hotkey_mode = "toggle" /\ state = "loading" /\ model_loading = FALSE
    /\ hold_pending = FALSE /\ hold_active = FALSE /\ hold_timer = 0
    /\ timer = [t \in Timers |-> "free"]
    /\ mpc = "loop"
    /\ wk = [w \in Workers |-> "off"]
    /\ hasStream = FALSE /\ sactive = FALSE /\ leak = FALSE
    /\ recording = FALSE /\ frames = FALSE /\ stopRes = "none" /\ pasteboard = "pre"
    /\ held = FALSE /\ gtimer = 0 /\ gphase = "none"
    /\ blocked = FALSE /\ gclean = FALSE /\ gstarts = 0

CliQuiet ==
    /\ audio = <<>>
    /\ cap = [c \in Captures |-> "unborn"]
    /\ pc = [p \in Procs |-> "done"]
    /\ mode = [p \in Procs |-> "toggle"]
    /\ pidv = [p \in Procs |-> 0]
    /\ polls = [p \in Procs |-> 0]
    /\ ret = [p \in Procs |-> "none"]
    /\ sret = [p \in Procs |-> "none"]
    /\ child = [p \in Procs |-> 0]
    /\ fd = [p \in Procs |-> 0]
    /\ rc = [p \in Procs |-> 0]
    /\ ecalls = [p \in Procs |-> 0]
    /\ pasted = [p \in Procs |-> FALSE]
    /\ eres = [p \in Procs |-> "none"]
    /\ note = [p \in Procs |-> "none"]
    /\ entry = [p \in Procs |-> "any"]

CliOff == lock = <<>> /\ notifications = TRUE /\ CliQuiet

NoFile == [exists |-> FALSE, parses |-> FALSE, data |-> <<>>]

ConfOff ==
    /\ cprog = "cli" /\ cfile = NoFile /\ cpc = "off"
    /\ config = <<>> /\ cnote = "none"

None == -1

HotkeyOff ==
    /\ hkconf = [hotkey_mode |-> "toggle", hotkey |-> <<>>] /\ hkpc = "off"
    /\ hkmode = "toggle" /\ modifiers = {} /\ key_code = None /\ hold_keycode = None

AuxOff == ConfOff /\ HotkeyOff

ProgOff == CliOff /\ TypeOff /\ DaemonOff

InitCLI ==
    /\ world = "cli"
    /\ TypeOff
    /\ DaemonOff
    /\ AuxOff
    /\ lock = <<>>
    /\ notifications \in BOOLEAN
    /\ CliQuiet

\* --------------------------------------------------- capture subprocess
\* pw-record creates its output file and writes the wave header
CaptureOpen(c) ==
    /\ world = "cli"
    /\ cap[c] = "starting"
    /\ cap' = [cap EXCEPT ![c] = "recording"]
    /\ audio' = <<c, WavHeaderSize>>
    /\ UNCHANGED <<notCLI, notifications, lock, pc, mode, pidv, polls, ret, sret, child, fd, rc, ecalls, pasted, eres, note, entry>>

\* pw-record writes sample data to its file, if that is still the file at the path
CaptureWrite(c) ==
    /\ world = "cli"
    /\ cap[c] \in {"recording", "stopping"}
    /\ audio # <<>> /\ audio[1] = c /\ audio[2] = WavHeaderSize
    /\ audio' = <<c, WavHeaderSize + 1>>
    /\ UNCHANGED <<notCLI, notifications, lock, cap, pc, mode, pidv, polls, ret, sret, child, fd, rc, ecalls, pasted, eres, note, entry>>

\* the capture process ends: after SIGINT, or by itself (crash, device lost)
CaptureExit(c) ==
    /\ world = "cli"
    /\ Alive(c)
    /\ cap' = [cap EXCEPT ![c] = "dead"]
    /\ entry' = [p \in Procs |->
                   IF entry[p] = "valid" /\ ret[p] = "none" /\ lock # <<>> /\ ParsePid(lock[1]) = c
                   THEN "stale" ELSE entry[p]]
    /\ UNCHANGED <<notCLI, notifications, lock, audio, pc, mode, pidv, polls, ret, sret, child, fd, rc, ecalls, pasted, eres, note>>

\* ------------------------------------------------------------ main: entry
\* a new process runs main() with the given flag
Begin(p, m) ==
    /\ world = "cli"
    /\ pc[p] = "done"
    /\ pc' = [pc EXCEPT ![p] = "ir_exists"]
    /\ mode' = [mode EXCEPT ![p] = m]
    /\ ret' = [ret EXCEPT ![p] = "none"]
    /\ sret' = [sret EXCEPT ![p] = "none"]
    /\ rc' = [rc EXCEPT ![p] = 0]
    /\ ecalls' = [ecalls EXCEPT ![p] = 0]
    /\ pasted' = [pasted EXCEPT ![p] = FALSE]
    /\ eres' = [eres EXCEPT ![p] = "none"]
    /\ note' = [note EXCEPT ![p] = "none"]
    /\ UNCHANGED <<notCLI, notifications, lock, audio, cap, pidv, polls, child, fd>>

\* the hotkey runs the program at any time, also while earlier invocations run
Launch(p) ==
    /\ Begin(p, "toggle")
    /\ UNCHANGED entry

\* an invocation starts when no other invocation runs
LaunchAlone(p, m) ==
    /\ \A q \in Procs : ~InProgress(q)
    /\ Begin(p, m)
    /\ entry' = [q \in Procs |-> IF q = p THEN LockClass ELSE "any"]

\* notify(...), called only if config["notifications"]
Notify(p, message) ==
    note' = [note EXCEPT ![p] = IF notifications THEN message ELSE note[p]]

\* the process ends with the given exit code
Exit(p, code) ==
    /\ pc' = [pc EXCEPT ![p] = "done"]
    /\ rc' = [rc EXCEPT ![p] = code]
    /\ pidv' = [pidv EXCEPT ![p] = 0]
    /\ polls' = [polls EXCEPT ![p] = 0]
    /\ child' = [child EXCEPT ![p] = 0]
    /\ fd' = [fd EXCEPT ![p] = 0]

Goto(p, label) ==
    /\ pc' = [pc EXCEPT ![p] = label]
    /\ UNCHANGED <<rc, pidv, polls, child, fd>>

\* main with the toggle test lost: a toggle invocation always starts a recording
IsRecordingReturn_AlwaysStart(p, r) ==
    /\ ret' = [ret EXCEPT ![p] = IF r THEN "true" ELSE "false"]
    /\ IF mode[p] = "status" THEN Exit(p, 0)
       ELSE IF mode[p] = "stop" THEN (IF r THEN Goto(p, "sr_exists") ELSE Exit(p, 0))
       ELSE Goto(p, "st_unlink")

\* main, once is_recording has returned r
IsRecordingReturn(p, r) ==
    /\ ret' = [ret EXCEPT ![p] = IF r THEN "true" ELSE "false"]
    /\ IF mode[p] = "status" THEN Exit(p, 0)
       ELSE IF r THEN Goto(p, "sr_exists")
       ELSE IF mode[p] = "stop" THEN Exit(p, 0)
       ELSE Goto(p, "st_unlink")

\* ------------------------------------------------------------ is_recording
\* if not LOCK_FILE.exists(): return False
IrExists(p) ==
    /\ world = "cli"
    /\ pc[p] = "ir_exists"
    /\ IF lock = <<>>
       THEN IsRecordingReturn(p, FALSE)
       ELSE Goto(p, "ir_read") /\ UNCHANGED ret
    /\ UNCHANGED <<notCLI, notifications, lock, audio, cap, mode, sret, ecalls, pasted, eres, note, entry>>

\* pid = int(LOCK_FILE.read_text().strip())
IrRead(p) ==
    /\ world = "cli"
    /\ pc[p] = "ir_read"
    /\ IF lock = <<>>
       THEN \* FileNotFoundError is not among the caught exceptions
            Exit(p, 1)
       ELSE IF ParsePid(lock[1]) = 0
       THEN \* ValueError
            Goto(p, "ir_unlink")
       ELSE /\ pidv' = [pidv EXCEPT ![p] = ParsePid(lock[1])]
            /\ pc' = [pc EXCEPT ![p] = "ir_kill"]
            /\ UNCHANGED <<rc, polls, child, fd>>
    /\ UNCHANGED <<notCLI, notifications, lock, audio, cap, mode, ret, sret, ecalls, pasted, eres, note, entry>>

\* is_recording probing with an interrupting signal in place of signal 0
IrKill_Interrupts(p) ==
    /\ world = "cli"
    /\ pc[p] = "ir_kill"
    /\ IF Alive(pidv[p])
       THEN /\ IsRecordingReturn(p, TRUE)
            /\ cap' = [cap EXCEPT ![pidv[p]] = "stopping"]
       ELSE Goto(p, "ir_unlink") /\ UNCHANGED <<ret, cap>>
    /\ UNCHANGED <<notCLI, notifications, lock, audio, mode, sret, ecalls, pasted, eres, note, entry>>

\* os.kill(pid, 0); return True
IrKill(p) ==
    /\ world = "cli"
    /\ pc[p] = "ir_kill"
    /\ IF Alive(pidv[p])
       THEN IsRecordingReturn(p, TRUE)
       ELSE Goto(p, "ir_unlink") /\ UNCHANGED ret
    /\ UNCHANGED <<notCLI, notifications, lock, audio, cap, mode, sret, ecalls, pasted, eres, note, entry>>

\* is_recording without the unlink in its except branch
IrUnlink_KeepsFile(p) ==
    /\ world = "cli"
    /\ pc[p] = "ir_unlink"
    /\ IsRecordingReturn(p, FALSE)
    /\ UNCHANGED <<notCLI, notifications, lock, audio, cap, mode, sret, ecalls, pasted, eres, note, entry>>

\* except (...): LOCK_FILE.unlink(missing_ok=True); return False
IrUnlink(p) ==
    /\ world = "cli"
    /\ pc[p] = "ir_unlink"
    /\ lock' = <<>>
    /\ IsRecordingReturn(p, FALSE)
    /\ UNCHANGED <<notCLI, notifications, audio, cap, mode, sret, ecalls, pasted, eres, note, entry>>

\* ---------------------------------------------------------- start_recording
\* AUDIO_FILE.unlink(missing_ok=True)
StUnlink(p) ==
    /\ world = "cli"
    /\ pc[p] = "st_unlink"
    /\ audio' = <<>>
    /\ Goto(p, "st_popen")
    /\ UNCHANGED <<notCLI, notifications, lock, cap, mode, ret, sret, ecalls, pasted, eres, note, entry>>

\* the pid the next spawned capture gets: pids are not reused
FreshCapture == CHOOSE c \in Captures :
                  cap[c] = "unborn" /\ \A d \in Captures : cap[d] = "unborn" => c <= d

\* process = subprocess.Popen(["pw-record", ...]); time.sleep(0.1)
StPopen(p) ==
    /\ world = "cli"
    /\ pc[p] = "st_popen"
    /\ \E c \in Captures : cap[c] = "unborn"
    /\ cap' = [cap EXCEPT ![FreshCapture] = "starting"]
    /\ child' = [child EXCEPT ![p] = FreshCapture]
    /\ pc' = [pc EXCEPT ![p] = "st_lock_open"]
    /\ UNCHANGED <<notCLI, notifications, lock, audio, mode, pidv, polls, ret, sret, fd, rc, ecalls, pasted, eres, note, entry>>

\* a start_recording that writes the lock file before it launches the capture
StPopenFails_LockFirst(p) ==
    /\ world = "cli"
    /\ pc[p] = "st_popen"
    /\ lock' = <<"", 0>>
    /\ Exit(p, 1)
    /\ UNCHANGED <<notCLI, notifications, audio, cap, mode, ret, sret, ecalls, pasted, eres, note, entry>>

\* find_sox or Popen raises: the capture binary cannot be located or
\* launched, and the exception ends the process
StPopenFails(p) ==
    /\ world = "cli"
    /\ pc[p] = "st_popen"
    /\ Exit(p, 1)
    /\ UNCHANGED <<notCLI, notifications, lock, audio, cap, mode, ret, sret, ecalls, pasted, eres, note, entry>>

\* LOCK_FILE.write_text(...): open for writing creates or truncates the file
StLockOpen(p) ==
    /\ world = "cli"
    /\ pc[p] = "st_lock_open"
    /\ LET ino == IF lock = <<>> THEN child[p] ELSE lock[2]
       IN /\ lock' = <<"", ino>>
          /\ fd' = [fd EXCEPT ![p] = ino]
    /\ pc' = [pc EXCEPT ![p] = "st_lock_write"]
    /\ UNCHANGED <<notCLI, notifications, audio, cap, mode, pidv, polls, ret, sret, child, rc, ecalls, pasted, eres, note, entry>>

\* LOCK_FILE.write_text(str(process.pid)): the text reaches the opened file,
\* which is the file at the path unless it was unlinked meanwhile
StLockWrite(p) ==
    /\ world = "cli"
    /\ pc[p] = "st_lock_write"
    /\ lock' = IF lock # <<>> /\ lock[2] = fd[p]
               THEN <<StrPid(child[p]), fd[p]>>
               ELSE lock
    /\ Notify(p, "recording")
    /\ Exit(p, 0)
    /\ UNCHANGED <<notCLI, notifications, audio, cap, mode, ret, sret, ecalls, pasted, eres, entry>>

\* ----------------------------------------------------------- stop_recording
\* main, once stop_recording has returned v; --stop then calls
\* notify("Recording cancelled"), whatever the configuration
StopReturn(p, v) ==
    /\ sret' = [sret EXCEPT ![p] = IF v THEN "true" ELSE "false"]
    /\ note' = [note EXCEPT ![p] = IF mode[p] = "stop" THEN "cancelled" ELSE note[p]]
    /\ IF mode[p] = "toggle" /\ v
       THEN /\ pc' = [pc EXCEPT ![p] = "tt_engine"]
            /\ pidv' = [pidv EXCEPT ![p] = 0]
            /\ polls' = [polls EXCEPT ![p] = 0]
            /\ UNCHANGED <<rc, child, fd>>
       ELSE Exit(p, 0)

\* if not LOCK_FILE.exists(): return False
SrExists(p) ==
    /\ world = "cli"
    /\ pc[p] = "sr_exists"
    /\ IF lock = <<>>
       THEN StopReturn(p, FALSE)
       ELSE Goto(p, "sr_read") /\ UNCHANGED <<sret, note>>
    /\ UNCHANGED <<notCLI, notifications, lock, audio, cap, mode, ret, ecalls, pasted, eres, entry>>

\* pid = int(LOCK_FILE.read_text().strip())
SrRead(p) ==
    /\ world = "cli"
    /\ pc[p] = "sr_read"
    /\ IF lock = <<>>
       THEN \* FileNotFoundError is not among the caught exceptions
            Exit(p, 1)
       ELSE IF ParsePid(lock[1]) = 0
       THEN \* ValueError
            Goto(p, "sr_unlink")
       ELSE /\ pidv' = [pidv EXCEPT ![p] = ParsePid(lock[1])]
            /\ pc' = [pc EXCEPT ![p] = "sr_kill"]
            /\ UNCHANGED <<rc, polls, child, fd>>
    /\ UNCHANGED <<notCLI, notifications, lock, audio, cap, mode, ret, sret, ecalls, pasted, eres, note, entry>>

\* os.kill(pid, signal.SIGINT)
SrKill(p) ==
    /\ world = "cli"
    /\ pc[p] = "sr_kill"
    /\ IF Alive(pidv[p])
       THEN /\ cap' = [cap EXCEPT ![pidv[p]] = "stopping"]
            /\ Goto(p, "sr_poll")
       ELSE \* ProcessLookupError
            /\ Goto(p, "sr_unlink")
            /\ UNCHANGED cap
    /\ UNCHANGED <<notCLI, notifications, lock, audio, mode, ret, sret, ecalls, pasted, eres, note, entry>>

\* the wait loop running one round more than range(20)
SrPoll_OneMore(p) ==
    /\ world = "cli"
    /\ pc[p] = "sr_poll"
    /\ polls[p] < PollLimit + 1
    /\ polls' = [polls EXCEPT ![p] = @ + 1]
    /\ pc' = [pc EXCEPT ![p] =
                IF ~Alive(pidv[p]) \/ polls[p] + 1 = PollLimit + 1
                THEN "sr_unlink" ELSE "sr_poll"]
    /\ UNCHANGED <<notCLI, notifications, lock, audio, cap, mode, pidv, ret, sret, child, fd, rc, ecalls, pasted, eres, note, entry>>

\* one round of: for _ in range(20): time.sleep(0.1); os.kill(pid, 0)
SrPoll(p) ==
    /\ world = "cli"
    /\ pc[p] = "sr_poll"
    /\ polls[p] < PollLimit
    /\ polls' = [polls EXCEPT ![p] = @ + 1]
    /\ pc' = [pc EXCEPT ![p] =
                IF ~Alive(pidv[p]) \/ polls[p] + 1 = PollLimit
                THEN "sr_unlink" ELSE "sr_poll"]
    /\ UNCHANGED <<notCLI, notifications, lock, audio, cap, mode, pidv, ret, sret, child, fd, rc, ecalls, pasted, eres, note, entry>>

\* LOCK_FILE.unlink(missing_ok=True)
SrUnlink(p) ==
    /\ world = "cli"
    /\ pc[p] = "sr_unlink"
    /\ lock' = <<>>
    /\ Notify(p, "processing")
    /\ Goto(p, "sr_aexists")
    /\ UNCHANGED <<notCLI, notifications, audio, cap, mode, ret, sret, ecalls, pasted, eres, entry>>

\* return AUDIO_FILE.exists() and ...
SrAExists(p) ==
    /\ world = "cli"
    /\ pc[p] = "sr_aexists"
    /\ IF audio = <<>>
       THEN StopReturn(p, FALSE)
       ELSE Goto(p, "sr_astat") /\ UNCHANGED <<sret, note>>
    /\ UNCHANGED <<notCLI, notifications, lock, audio, cap, mode, ret, ecalls, pasted, eres, entry>>

\* ... and AUDIO_FILE.stat().st_size > 44
SrAStat(p) ==
    /\ world = "cli"
    /\ pc[p] = "sr_astat"
    /\ IF audio = <<>>
       THEN \* FileNotFoundError from stat()
            Exit(p, 1) /\ UNCHANGED <<sret, note>>
       ELSE StopReturn(p, Viable(audio[2]))
    /\ UNCHANGED <<notCLI, notifications, lock, audio, cap, mode, ret, ecalls, pasted, eres, entry>>

\* ------------------------------------------- main: transcribe and clean up
\* main after transcribe_and_type: notify(f"Typed: ...") or notify("No speech
\* detected", urgency="low") if config["notifications"]; in the except branch
\* notify(f"Error: {e}", urgency="critical") whatever the configuration
EngineNote(outcome, before) ==
    IF outcome = "fail" THEN "critical"
    ELSE IF ~notifications THEN before
    ELSE IF outcome = "text" THEN "typed"
    ELSE "nospeech"

\* main with the exit code of the except branch lost: sys.exit(1) is not reached
TtEngine_FailureExitsZero(p, outcome, anyPaste) ==
    /\ world = "cli"
    /\ pc[p] = "tt_engine"
    /\ audio = <<>> => outcome = "fail" /\ ~anyPaste
    /\ outcome = "text" => anyPaste
    /\ outcome = "empty" => ~anyPaste
    /\ ecalls' = [ecalls EXCEPT ![p] = IF audio = <<>> THEN 0 ELSE audio[1]]
    /\ pasted' = [pasted EXCEPT ![p] = anyPaste]
    /\ eres' = [eres EXCEPT ![p] = outcome]
    /\ note' = [note EXCEPT ![p] = EngineNote(outcome, note[p])]
    /\ rc' = [rc EXCEPT ![p] = 0]
    /\ pc' = [pc EXCEPT ![p] = "cleanup"]
    /\ UNCHANGED <<notCLI, notifications, lock, audio, cap, mode, pidv, polls, ret, sret,
                   child, fd, entry>>

\* transcribe_and_type: model.transcribe(str(AUDIO_FILE)) and the paste loop;
\* then main's notification, and sys.exit(1) when an exception was raised
TtEngine(p, outcome, anyPaste) ==
    /\ world = "cli"
    /\ pc[p] = "tt_engine"
    /\ audio = <<>> => outcome = "fail" /\ ~anyPaste
    /\ outcome = "text" => anyPaste
    /\ outcome = "empty" => ~anyPaste
    /\ ecalls' = [ecalls EXCEPT ![p] = IF audio = <<>> THEN 0 ELSE audio[1]]
    /\ pasted' = [pasted EXCEPT ![p] = anyPaste]
    /\ eres' = [eres EXCEPT ![p] = outcome]
    /\ note' = [note EXCEPT ![p] = EngineNote(outcome, note[p])]
    /\ rc' = [rc EXCEPT ![p] = IF outcome = "fail" THEN 1 ELSE 0]
    /\ pc' = [pc EXCEPT ![p] = "cleanup"]
    /\ UNCHANGED <<notCLI, notifications, lock, audio, cap, mode, pidv, polls, ret, sret, child, fd, entry>>

\* finally: AUDIO_FILE.unlink(missing_ok=True)
Cleanup(p) ==
    /\ world = "cli"
    /\ pc[p] = "cleanup"
    /\ audio' = <<>>
    /\ Exit(p, rc[p])
    /\ UNCHANGED <<notCLI, notifications, lock, cap, mode, ret, sret, ecalls, pasted, eres, note, entry>>

Modes == {"toggle", "status", "stop"}

StepCLI ==
    \/ \E c \in Captures : CaptureOpen(c)
    \/ \E c \in Captures : CaptureWrite(c)
    \/ \E c \in Captures : CaptureExit(c)
    \/ \E p \in Procs : IrExists(p)
    \/ \E p \in Procs : IrRead(p)
    \/ \E p \in Procs : IrKill(p)
    \/ \E p \in Procs : IrUnlink(p)
    \/ \E p \in Procs : StUnlink(p)
    \/ \E p \in Procs : StPopen(p)
    \/ \E p \in Procs : StPopenFails(p)
    \/ \E p \in Procs : StLockOpen(p)
    \/ \E p \in Procs : StLockWrite(p)
    \/ \E p \in Procs : SrExists(p)
    \/ \E p \in Procs : SrRead(p)
    \/ \E p \in Procs : SrKill(p)
    \/ \E p \in Procs : SrPoll(p)
    \/ \E p \in Procs : SrUnlink(p)
    \/ \E p \in Procs : SrAExists(p)
    \/ \E p \in Procs : SrAStat(p)
    \/ \E p \in Procs, o \in {"text", "empty", "fail"}, k \in BOOLEAN : TtEngine(p, o, k)
    \/ \E p \in Procs : Cleanup(p)

NextCLI == (\E p \in Procs : Launch(p)) \/ StepCLI

NextSeq == (\E p \in Procs, m \in Modes : LaunchAlone(p, m)) \/ StepCLI

\* invocations of the command line program, arbitrarily interleaved
SpecCLI == InitCLI /\ [][NextCLI]_vars

\* an invocation killed inside write_text leaves the lock file empty
InitSeq ==
    /\ world = "cli"
    /\ TypeOff
    /\ DaemonOff
    /\ AuxOff
    /\ lock \in {<<>>, <<"", 0>>}
    /\ notifications \in BOOLEAN
    /\ CliQuiet

\* invocations of the command line program, one after the other
SpecSeq == InitSeq /\ [][NextSeq]_vars


\* the steps of the invocation in slot p
Run(p) ==
    \/ IrExists(p) \/ IrRead(p) \/ IrKill(p) \/ IrUnlink(p)
    \/ StUnlink(p) \/ StPopen(p) \/ StPopenFails(p) \/ StLockOpen(p) \/ StLockWrite(p)
    \/ SrExists(p) \/ SrRead(p) \/ SrKill(p) \/ SrPoll(p) \/ SrUnlink(p)
    \/ SrAExists(p) \/ SrAStat(p)
    \/ (\E o \in {"text", "empty", "fail"}, k \in BOOLEAN : TtEngine(p, o, k))
    \/ Cleanup(p)

\* sequential invocations, each of which the operating system keeps running;
\* nothing is assumed about the capture process
FairSeq == SpecSeq /\ \A p \in Procs : WF_vars(Run(p))

\* ===================================================================
\* transcribe_and_type (src/whisper_push.py)
\* ===================================================================
\* texts are sequences of characters
Space == " "

\* the texts a segment of the engine may carry, and the clipboard may hold
SegTexts == {<<>>, <<Space>>, <<"a">>, <<Space, "b">>, <<"c", Space>>}
ClipTexts == {<<>>, <<"x">>, <<Space, "y">>}

RECURSIVE LStrip(_)
LStrip(t) == IF t # <<>> /\ Head(t) = Space THEN LStrip(Tail(t)) ELSE t

RECURSIVE RStrip(_)
RStrip(t) == IF t # <<>> /\ t[Len(t)] = Space THEN RStrip(SubSeq(t, 1, Len(t) - 1)) ELSE t

\* segment.text.strip()
Strip(t) == RStrip(LStrip(t))

\* " ".join(typed_segments)
RECURSIVE Join(_)
Join(segs) == IF segs = <<>> THEN <<>>
              ELSE IF Len(segs) = 1 THEN segs[1]
              ELSE segs[1] \o <<Space>> \o Join(Tail(segs))

\* the argument of _paste_text for a segment: a space before all but the first
PasteArg(done, text) == IF done # <<>> THEN <<Space>> \o text ELSE text

\* the engine segment at which the next request on transcribe_segments stops:
\* the first one after pos that raises or has text left after strip();
\* Len(stream) + 1 when the engine has no more segments
\* transcribe_segments without `if text:`: every segment of the engine is yielded
NextStop_NoFilter(i) == i

RECURSIVE NextStop(_)
NextStop(i) == IF i > Len(stream) THEN i
               ELSE IF i = failAt THEN i
               ELSE IF Strip(stream[i]) # <<>> THEN i
               ELSE NextStop(i + 1)

Streams == UNION {[1..n -> SegTexts] : n \in 0..MaxSegs}

\* the call of transcribe_and_type begins
TypeStart ==
    /\ copier = {}
    /\ tpc = "save"
    /\ clip \in ClipTexts
    /\ clip0 = clip
    /\ oldclip = <<>>
    /\ stream \in Streams
    /\ failAt \in 0..(Len(stream) + 1)
    /\ pos = 0 /\ yielded = 0
    /\ typed = <<>> /\ cur = <<>> /\ app = <<>> /\ out = <<>>

InitType ==
    /\ world = "type"
    /\ CliOff
    /\ DaemonOff
    /\ AuxOff
    /\ variant = "linux"
    /\ TypeStart

\* old_clipboard = subprocess.run(["wl-paste", "-n"], ...).stdout
TySave ==
    /\ world = "type"
    /\ tpc = "save"
    /\ oldclip' = clip
    /\ tpc' = "next"
    /\ UNCHANGED <<notType, variant, copier, clip, clip0, stream, failAt, pos, yielded, typed, cur, app, out>>

\* for segment_text in transcribe_segments(config): the next segment is
\* requested; the generator skips segments that are empty after strip()
TyNext ==
    /\ world = "type"
    /\ tpc = "next"
    /\ LET j == NextStop(pos + 1)
       IN IF j = failAt
          THEN \* the engine raises: the finally block runs, then the exception goes on
               /\ pos' = j
               /\ tpc' = "restore"
               /\ out' = <<"raised">>
               /\ UNCHANGED <<cur, yielded>>
          ELSE IF j > Len(stream)
          THEN \* the engine is exhausted
               /\ pos' = Len(stream)
               /\ tpc' = "restore"
               /\ UNCHANGED <<cur, yielded, out>>
          ELSE /\ pos' = j
               /\ yielded' = yielded + 1
               /\ cur' = Strip(stream[j])
               /\ tpc' = "set"
               /\ UNCHANGED out
    /\ UNCHANGED <<notType, variant, copier, clip, clip0, oldclip, stream, failAt, typed, app>>

\* _paste_text: the clipboard command, then time.sleep. whisper_push.py runs
\* wl-copy with subprocess.run and whisper-push-macos.py feeds pbcopy with
\* communicate(): both wait for the command. whisper-push.py launches wl-copy
\* with subprocess.Popen and goes on without waiting for it.
TySet ==
    /\ world = "type"
    /\ tpc = "set"
    /\ IF variant = "popen"
       THEN copier' = copier \cup {PasteArg(typed, cur)} /\ UNCHANGED clip
       ELSE clip' = PasteArg(typed, cur) /\ UNCHANGED copier
    /\ tpc' = "key"
    /\ UNCHANGED <<notType, variant, clip0, oldclip, stream, failAt, pos, yielded, typed, cur, app, out>>

\* a wl-copy process launched by whisper-push.py sets the clipboard
CopierRun(t) ==
    /\ world = "type"
    /\ t \in copier
    /\ clip' = t
    /\ copier' = copier \ {t}
    /\ UNCHANGED <<notType, variant, tpc, clip0, oldclip, stream, failAt, pos, yielded, typed, cur, app, out>>

\* _paste_text: the paste keystroke is sent; the application pastes the clipboard
TyKey ==
    /\ world = "type"
    /\ tpc = "key"
    /\ app' = Append(app, clip)
    /\ tpc' = "settle"
    /\ UNCHANGED <<notType, variant, copier, clip, clip0, oldclip, stream, failAt, pos, yielded, typed, cur, out>>

\* _paste_text: time.sleep after the keystroke; typed_segments.append(segment_text)
TySettle ==
    /\ world = "type"
    /\ tpc = "settle"
    /\ typed' = Append(typed, cur)
    /\ tpc' = "next"
    /\ UNCHANGED <<notType, variant, copier, clip, clip0, oldclip, stream, failAt, pos, yielded, cur, app, out>>

\* the clipboard after the finally block: if old_clipboard: wl-copy < old_clipboard
Restored(old, now) == IF old # <<>> THEN old ELSE now

\* finally: restore; then return " ".join(typed_segments), or the exception goes on
TyRestore ==
    /\ world = "type"
    /\ tpc = "restore"
    /\ clip' = Restored(oldclip, clip)
    /\ IF out = <<"raised">>
       THEN tpc' = "raised" /\ UNCHANGED out
       ELSE tpc' = "done" /\ out' = <<Join(typed)>>
    /\ UNCHANGED <<notType, variant, copier, clip0, oldclip, stream, failAt, pos, yielded, typed, cur, app>>

NextType == TySave \/ TyNext \/ TySet \/ TyKey \/ TySettle \/ TyRestore

\* one call of transcribe_and_type, for every clipboard and every engine output
SpecType == InitType /\ [][NextType]_vars

Variants == {"linux", "popen", "macos"}

InitPaste ==
    /\ world = "type"
    /\ CliOff
    /\ DaemonOff
    /\ AuxOff
    /\ variant \in Variants
    /\ TypeStart

NextPaste == NextType \/ \E t \in copier : CopierRun(t)

\* transcribe_and_type in the three scripts of the command line program
SpecPaste == InitPaste /\ [][NextPaste]_vars


\* the command line program and its transcribe_and_type, side by side
InitFail == InitSeq \/ InitType

NextFail == NextSeq \/ NextType

SpecFail == InitFail /\ [][NextFail]_vars

\* ===================================================================
\* Menu bar daemon (src/macos/menubar-daemon.py)
\* ===================================================================
holdVars == <<hold_pending, hold_active, hold_timer>>
recVars == <<hasStream, sactive, leak, recording, frames>>
gestVars == <<held, gtimer, gphase, blocked, gclean, gstarts>>

\* the fields of the daemon, its threads and its recorder
progVars == <<hotkey_mode, state, model_loading, hold_pending, hold_active, hold_timer,
              timer, mpc, wk, hasStream, sactive, leak, recording, frames>>

FreeTimers == {t \in Timers : timer[t] = "free"}
NewTimer == CHOOSE t \in FreeTimers : \A u \in FreeTimers : t <= u

FreeWorkers == {w \in Workers : wk[w] = "off"}
NewWorker == CHOOSE w \in FreeWorkers : \A u \in FreeWorkers : w <= u

\* no handler, Timer thread or do_transcribe thread is under way
Quiet ==
    /\ mpc = "loop"
    /\ \A t \in Timers : timer[t] = "free"
    /\ \A w \in Workers : wk[w] = "off"

\* MenuBarApp.init, once the loader thread is started
InitDaemon ==
    /\ world = "daemon"
    /\ CliOff
    /\ TypeOff
    /\ AuxOff
    /\ hotkey_mode \in {"toggle", "hold"}
    /\ state = "loading" /\ model_loading = TRUE
    /\ hold_pending = FALSE /\ hold_active = FALSE /\ hold_timer = 0
    /\ timer = [t \in Timers |-> "free"]
    /\ mpc = "loop"
    /\ wk = [w \in Workers |-> "off"]
    /\ hasStream = FALSE /\ sactive = FALSE /\ leak = FALSE
    /\ recording = FALSE /\ frames = FALSE /\ stopRes = "none" /\ pasteboard = "pre"
    /\ held = FALSE /\ gtimer = 0 /\ gphase = "none"
    /\ blocked = FALSE /\ gclean = FALSE /\ gstarts = 0

\* ----------------------------------------------------------- loader thread
\* load_whisper_model: the import succeeds, callback() runs set_state(IDLE)
ModelLoaded ==
    /\ world = "daemon"
    /\ model_loading
    /\ model_loading' = FALSE
    /\ state' = "idle"
    /\ UNCHANGED <<notDaemon, hotkey_mode, holdVars, timer, mpc, wk, recVars,
                   stopRes, pasteboard, gestVars>>

\* load_whisper_model calling back from its except branch too
ModelLoadFails_CallsBack ==
    /\ world = "daemon"
    /\ model_loading
    /\ model_loading' = FALSE
    /\ state' = "idle"
    /\ UNCHANGED <<notDaemon, hotkey_mode, holdVars, timer, mpc, wk, recVars,
                   stopRes, pasteboard, gestVars>>

\* load_whisper_model: the import raises, the callback never runs
ModelLoadFails ==
    /\ world = "daemon"
    /\ model_loading
    /\ model_loading' = FALSE
    /\ UNCHANGED <<notDaemon, hotkey_mode, state, holdVars, timer, mpc, wk, recVars,
                   stopRes, pasteboard, gestVars>>

\* ------------------------------------------------------------ AudioRecorder
StartOutcomes == {"ok", "no_stream", "no_start"}

\* AudioRecorder.start: "no_stream" when sd.InputStream(...) raises,
\* "no_start" when self.stream.start() raises
RecorderStart(outcome) ==
    /\ frames' = FALSE
    /\ recording' = TRUE
    /\ IF outcome = "no_stream"
       THEN UNCHANGED <<hasStream, sactive, leak>>
       ELSE /\ hasStream' = TRUE
            /\ sactive' = (outcome = "ok")
            /\ leak' = (leak \/ sactive)

\* the callback of a running InputStream: if self.recording: audio_data.append
AudioCallback ==
    /\ world = "daemon"
    /\ recording /\ (sactive \/ leak)
    /\ ~frames
    /\ frames' = TRUE
    /\ UNCHANGED <<notDaemon, hotkey_mode, state, model_loading, holdVars, timer, mpc, wk,
                   hasStream, sactive, leak, recording, stopRes, pasteboard, gestVars>>

\* what AudioRecorder.stop does: "raise" for the AttributeError when no stream
\* was ever created and for sf.write raising, "empty" for return None
StopResult(outcome) ==
    IF ~hasStream THEN "raise"
    ELSE IF ~frames THEN "empty"
    ELSE IF outcome = "write_fails" THEN "raise"
    ELSE "audio"

\* ------------------------------------------------- MenuBarApp, main thread
\* start_recording: self.set_state(State.RECORDING); a session begins
BeginSession ==
    /\ state' = "recording"
    /\ stopRes' = "none"
    /\ pasteboard' = "pre"
    /\ gstarts' = IF held /\ gclean /\ gstarts < 2 THEN gstarts + 1 ELSE gstarts

\* stop_and_transcribe: self.set_state(State.PROCESSING)
StopSetState ==
    /\ state' = "processing"
    /\ mpc' = "stopping"
    /\ UNCHANGED <<stopRes, pasteboard, gstarts>>

\* toggle_recording without the test of the state: it starts in every state
ToggleRecording_StartsAlways ==
    /\ BeginSession
    /\ mpc' = "starting"

\* toggle_recording
ToggleRecording ==
    IF state = "idle" THEN BeginSession /\ mpc' = "starting"
    ELSE IF state = "recording" THEN StopSetState
    ELSE UNCHANGED <<state, mpc, stopRes, pasteboard, gstarts>>

\* Timer.cancel(): a Timer that has not fired never runs its function
Cancelled(t) ==
    IF t # 0 /\ timer[t] = "armed" THEN [timer EXCEPT ![t] = "free"] ELSE timer

\* the gesture loses its Timer when that Timer is cancelled in time
GestCancel(t) ==
    IF t # 0 /\ t = gtimer /\ timer[t] = "armed"
    THEN gtimer' = 0 /\ gphase' = "none"
    ELSE UNCHANGED <<gtimer, gphase>>

\* the gesture's Timer has run to its end
GestTimerEnds(t) ==
    IF t = gtimer
    THEN gtimer' = 0 /\ gphase' = "done"
    ELSE UNCHANGED <<gtimer, gphase>>

\* _handle_global_hotkey; match: the key and the modifiers are the hotkey's,
\* which no event is when key_code is None (hold mode)
KeyDown(match) ==
    /\ world = "daemon"
    /\ mpc = "loop"
    /\ match => hotkey_mode = "toggle"
    /\ IF hold_pending
       THEN /\ hold_pending' = FALSE
            /\ hold_active' = FALSE
            /\ timer' = Cancelled(hold_timer)
            /\ hold_timer' = 0
            /\ GestCancel(hold_timer)
            /\ UNCHANGED <<state, mpc, stopRes, pasteboard, gstarts>>
       ELSE /\ IF match THEN ToggleRecording
               ELSE UNCHANGED <<state, mpc, stopRes, pasteboard, gstarts>>
            /\ UNCHANGED <<holdVars, timer, gtimer, gphase>>
    /\ blocked' = (blocked \/ (held /\ gphase = "armed"))
    /\ gclean' = FALSE
    /\ UNCHANGED <<notDaemon, hotkey_mode, model_loading, wk, recVars, held>>

\* toggleRecordingMenu_
MenuToggle ==
    /\ world = "daemon"
    /\ mpc = "loop"
    /\ ToggleRecording
    /\ gclean' = FALSE
    /\ UNCHANGED <<notDaemon, hotkey_mode, model_loading, holdVars, timer, wk, recVars,
                   held, gtimer, gphase, blocked>>

\* cancelRecording_ taken for a stop: the recording is transcribed
CancelRecording_Transcribes ==
    /\ world = "daemon"
    /\ mpc = "loop"
    /\ state = "recording"
    /\ FreeWorkers # {}
    /\ recording' = FALSE
    /\ sactive' = FALSE
    /\ state' = "processing"
    /\ wk' = [wk EXCEPT ![NewWorker] = "transcribe"]
    /\ gclean' = FALSE
    /\ UNCHANGED <<notDaemon, hotkey_mode, model_loading, holdVars, timer, mpc,
                   hasStream, leak, frames, stopRes, pasteboard, held, gtimer, gphase, blocked, gstarts>>

\* cancelRecording_: if self.state == State.RECORDING:
\*     self.recorder.cancel(); self.set_state(State.IDLE)
CancelRecording ==
    /\ world = "daemon"
    /\ mpc = "loop"
    /\ IF state = "recording"
       THEN /\ recording' = FALSE
            /\ frames' = FALSE
            /\ sactive' = FALSE
            /\ state' = "idle"
       ELSE UNCHANGED <<recording, frames, sactive, state>>
    /\ gclean' = FALSE
    /\ UNCHANGED <<notDaemon, hotkey_mode, model_loading, holdVars, timer, mpc, wk, hasStream, leak, stopRes, pasteboard, held, gtimer, gphase, blocked, gstarts>>

\* start_recording on the main thread: self.recorder.start()
MainRecorderStart(outcome) ==
    /\ world = "daemon"
    /\ mpc = "starting"
    /\ RecorderStart(outcome)
    /\ mpc' = "loop"
    /\ UNCHANGED <<notDaemon, hotkey_mode, state, model_loading, holdVars, timer, wk, stopRes, pasteboard, gestVars>>

\* stop_and_transcribe with the test of audio_path lost: it always transcribes
StopEmpty_Transcribes ==
    /\ FreeWorkers # {}
    /\ wk' = [wk EXCEPT ![NewWorker] = "transcribe"]
    /\ stopRes' = "empty"
    /\ UNCHANGED state

\* stop_and_transcribe: if not audio_path: self.set_state(State.IDLE); return
StopEmpty ==
    /\ state' = "idle"
    /\ stopRes' = "empty"
    /\ UNCHANGED <<wk>>

\* stop_and_transcribe: threading.Thread(target=do_transcribe).start()
StopAudio ==
    /\ FreeWorkers # {}
    /\ wk' = [wk EXCEPT ![NewWorker] = "transcribe"]
    /\ stopRes' = "audio"
    /\ UNCHANGED state

\* stop_and_transcribe: audio_path = self.recorder.stop() and what follows
MainRecorderStop(outcome) ==
    /\ world = "daemon"
    /\ mpc = "stopping"
    /\ outcome = "write_fails" => hasStream /\ frames
    /\ recording' = FALSE
    /\ sactive' = (IF hasStream THEN FALSE ELSE sactive)
    /\ mpc' = "loop"
    /\ LET r == StopResult(outcome)
       IN  CASE r = "raise" -> UNCHANGED <<state, wk, stopRes>>
             [] r = "empty" -> StopEmpty
             [] r = "audio" -> StopAudio
    /\ UNCHANGED <<notDaemon, hotkey_mode, model_loading, holdVars, timer, hasStream, leak,
                   frames, pasteboard, gestVars>>

\* the hold gesture ends: the modifiers are up
GestEnd ==
    /\ gtimer' = 0 /\ gphase' = "none"
    /\ blocked' = FALSE /\ gclean' = FALSE /\ gstarts' = 0

\* _handle_flags_changed with the test of the state lost in its press branch:
\* it arms the Timer in every state
FlagsPress_ArmsAlways ==
    /\ hold_active' = TRUE
    /\ FreeTimers # {}
    /\ hold_pending' = TRUE
    /\ hold_timer' = NewTimer
    /\ timer' = [timer EXCEPT ![NewTimer] = "armed"]
    /\ UNCHANGED <<state, mpc>>
    /\ IF ~held
       THEN /\ gtimer' = NewTimer
            /\ gphase' = "armed"
            /\ blocked' = FALSE
            /\ gstarts' = 0
            /\ gclean' = (Quiet /\ state = "idle")
       ELSE /\ gclean' = FALSE
            /\ UNCHANGED <<gtimer, gphase, blocked, gstarts>>

\* _handle_flags_changed, is_pressed and not hold_active
FlagsPress ==
    /\ hold_active' = TRUE
    /\ IF state = "idle"
       THEN /\ FreeTimers # {}
            /\ hold_pending' = TRUE
            /\ hold_timer' = NewTimer
            /\ timer' = [timer EXCEPT ![NewTimer] = "armed"]
       ELSE UNCHANGED <<hold_pending, hold_timer, timer>>
    /\ UNCHANGED <<state, mpc>>
    /\ IF ~held
       THEN /\ gtimer' = (IF state = "idle" THEN NewTimer ELSE 0)
            /\ gphase' = (IF state = "idle" THEN "armed" ELSE "none")
            /\ blocked' = FALSE
            /\ gstarts' = 0
            /\ gclean' = (Quiet /\ state = "idle")
       ELSE /\ gclean' = FALSE
            /\ UNCHANGED <<gtimer, gphase, blocked, gstarts>>

\* _handle_flags_changed with the test of the state lost in its release
\* branch: it stops and transcribes in every state
FlagsRelease_StopsAlways ==
    /\ hold_active' = FALSE
    /\ IF hold_pending
       THEN /\ hold_pending' = FALSE
            /\ timer' = Cancelled(hold_timer)
            /\ hold_timer' = 0
            /\ UNCHANGED <<state, mpc>>
       ELSE /\ state' = "processing" /\ mpc' = "stopping"
            /\ UNCHANGED <<hold_pending, hold_timer, timer>>
    /\ GestEnd

\* _handle_flags_changed, not is_pressed and hold_active
FlagsRelease ==
    /\ hold_active' = FALSE
    /\ IF hold_pending
       THEN /\ hold_pending' = FALSE
            /\ timer' = Cancelled(hold_timer)
            /\ hold_timer' = 0
            /\ UNCHANGED <<state, mpc>>
       ELSE /\ IF state = "recording"
               THEN state' = "processing" /\ mpc' = "stopping"
               ELSE UNCHANGED <<state, mpc>>
            /\ UNCHANGED <<hold_pending, hold_timer, timer>>
    /\ GestEnd

\* _handle_flags_changed; it returns at once unless hotkey_mode is "hold"
FlagsChanged(is_pressed) ==
    /\ world = "daemon"
    /\ mpc = "loop"
    /\ hotkey_mode = "hold"
    /\ held' = is_pressed
    /\ IF is_pressed /\ ~hold_active THEN FlagsPress
       ELSE IF ~is_pressed /\ hold_active THEN FlagsRelease
       ELSE /\ UNCHANGED <<holdVars, timer, state, mpc>>
            /\ IF is_pressed
               THEN gclean' = FALSE /\ UNCHANGED <<gtimer, gphase, blocked, gstarts>>
               ELSE GestEnd
    /\ UNCHANGED <<notDaemon, hotkey_mode, model_loading, wk, recVars, stopRes, pasteboard>>

\* ------------------------------------------------------------ Timer thread
\* Timer.run: the delay is over and finished is not set; the function will run
TimerFire(t) ==
    /\ world = "daemon"
    /\ timer[t] = "armed"
    /\ timer' = [timer EXCEPT ![t] = "fired"]
    /\ gphase' = (IF t = gtimer THEN "run" ELSE gphase)
    /\ UNCHANGED <<notDaemon, hotkey_mode, state, model_loading, holdVars, mpc, wk, recVars, stopRes, pasteboard, held, gtimer, blocked, gclean, gstarts>>

\* _delayed_start_recording with its test lost: the Timer never starts recording
HoldCondition_Never == FALSE

\* _delayed_start_recording: hold_pending and hold_active and state == IDLE
HoldCondition == hold_pending /\ hold_active /\ state = "idle"

\* _delayed_start_recording: the test
TimerCheck(t) ==
    /\ world = "daemon"
    /\ timer[t] = "fired"
    /\ timer' = [timer EXCEPT ![t] = IF HoldCondition THEN "then" ELSE "else"]
    /\ UNCHANGED <<notDaemon, hotkey_mode, state, model_loading, holdVars, mpc, wk, recVars, stopRes, pasteboard, gestVars>>

\* _delayed_start_recording: hold_pending = False, when the test failed
TimerElse(t) ==
    /\ world = "daemon"
    /\ timer[t] = "else"
    /\ hold_pending' = FALSE
    /\ timer' = [timer EXCEPT ![t] = "else2"]
    /\ UNCHANGED <<notDaemon, hotkey_mode, state, model_loading, hold_active, hold_timer, mpc, wk, recVars, stopRes, pasteboard, gestVars>>

\* _delayed_start_recording: _hold_timer = None, when the test failed; the
\* function returns
TimerElseEnd(t) ==
    /\ world = "daemon"
    /\ timer[t] = "else2"
    /\ hold_timer' = 0
    /\ timer' = [timer EXCEPT ![t] = "free"]
    /\ GestTimerEnds(t)
    /\ UNCHANGED <<notDaemon, hotkey_mode, state, model_loading, hold_pending, hold_active, mpc, wk, recVars, stopRes, pasteboard, held, blocked, gclean, gstarts>>

\* _delayed_start_recording: hold_pending = False, when the test passed
TimerThen(t) ==
    /\ world = "daemon"
    /\ timer[t] = "then"
    /\ hold_pending' = FALSE
    /\ timer' = [timer EXCEPT ![t] = "then2"]
    /\ UNCHANGED <<notDaemon, hotkey_mode, state, model_loading, hold_active, hold_timer, mpc, wk, recVars, stopRes, pasteboard, gestVars>>

\* _delayed_start_recording: _hold_timer = None, when the test passed
TimerThenEnd(t) ==
    /\ world = "daemon"
    /\ timer[t] = "then2"
    /\ hold_timer' = 0
    /\ timer' = [timer EXCEPT ![t] = "call"]
    /\ UNCHANGED <<notDaemon, hotkey_mode, state, model_loading, hold_pending, hold_active, mpc, wk, recVars, stopRes, pasteboard, gestVars>>

\* _delayed_start_recording: self.start_recording(), its set_state(RECORDING)
TimerSetState(t) ==
    /\ world = "daemon"
    /\ timer[t] = "call"
    /\ BeginSession
    /\ timer' = [timer EXCEPT ![t] = "start"]
    /\ UNCHANGED <<notDaemon, hotkey_mode, model_loading, holdVars, mpc, wk, recVars,
                   held, gtimer, gphase, blocked, gclean>>

\* start_recording on the Timer thread: self.recorder.start()
TimerRecorderStart(t, outcome) ==
    /\ world = "daemon"
    /\ timer[t] = "start"
    /\ RecorderStart(outcome)
    /\ timer' = [timer EXCEPT ![t] = "free"]
    /\ GestTimerEnds(t)
    /\ UNCHANGED <<notDaemon, hotkey_mode, state, model_loading, holdVars, mpc, wk, stopRes, pasteboard, held, blocked, gclean, gstarts>>

\* ----------------------------------------------------- do_transcribe thread
\* text = transcribe_audio(audio_path, config); "" also when the engine raised
WkTranscribe(w, text) ==
    /\ world = "daemon"
    /\ wk[w] = "transcribe"
    /\ wk' = [wk EXCEPT ![w] = IF text THEN "paste" ELSE "finish"]
    /\ UNCHANGED <<notDaemon, hotkey_mode, state, model_loading, holdVars, timer, mpc, recVars, stopRes, pasteboard, gestVars>>

\* paste_text(text): clearContents, setString_forType_, then Cmd+V; the pasteboard
\* calls are outside its try block; ok is false when the import of AppKit or
\* the first of them raises, which leaves the pasteboard as it is
WkPaste(w, ok) ==
    /\ world = "daemon"
    /\ wk[w] = "paste"
    /\ wk' = [wk EXCEPT ![w] = IF ok THEN "finish" ELSE "off"]
    /\ IF ok THEN pasteboard' = "text" ELSE pasteboard' = pasteboard
    /\ UNCHANGED <<notDaemon, hotkey_mode, state, model_loading, holdVars, timer, mpc,
                   recVars, stopRes, gestVars>>

\* notify(...); self.set_state(State.IDLE); ok is false when notify raises
WkFinish(w, ok) ==
    /\ world = "daemon"
    /\ wk[w] = "finish"
    /\ wk' = [wk EXCEPT ![w] = "off"]
    /\ state' = (IF ok THEN "idle" ELSE state)
    /\ UNCHANGED <<notDaemon, hotkey_mode, model_loading, holdVars, timer, mpc,
                   recVars, stopRes, pasteboard, gestVars>>

NextDaemon ==
    \/ ModelLoaded
    \/ ModelLoadFails
    \/ AudioCallback
    \/ \E m \in BOOLEAN : KeyDown(m)
    \/ MenuToggle
    \/ CancelRecording
    \/ \E o \in StartOutcomes : MainRecorderStart(o)
    \/ \E o \in {"ok", "write_fails"} : MainRecorderStop(o)
    \/ \E b \in BOOLEAN : FlagsChanged(b)
    \/ \E t \in Timers : TimerFire(t)
    \/ \E t \in Timers : TimerCheck(t)
    \/ \E t \in Timers : TimerElse(t)
    \/ \E t \in Timers : TimerElseEnd(t)
    \/ \E t \in Timers : TimerThen(t)
    \/ \E t \in Timers : TimerThenEnd(t)
    \/ \E t \in Timers : TimerSetState(t)
    \/ \E t \in Timers, o \in StartOutcomes : TimerRecorderStart(t, o)
    \/ \E w \in Workers, x \in BOOLEAN : WkTranscribe(w, x)
    \/ \E w \in Workers, k \in BOOLEAN : WkPaste(w, k)
    \/ \E w \in Workers, k \in BOOLEAN : WkFinish(w, k)

\* the daemon under every interleaving of its threads
SpecDaemon == InitDaemon /\ [][NextDaemon]_vars

\* the stop transition of the command line program and of the daemon
InitStop == InitSeq \/ InitDaemon

NextBoth == NextSeq \/ NextDaemon

SpecStop == InitStop /\ [][NextBoth]_vars


\* ===================================================================
\* load_config (src/whisper_push.py, src/macos/menubar-daemon.py)
\* ===================================================================
\* DEFAULT_CONFIG of the command line program; values are written as in TOML
DEFAULT_CONFIG ==
    [language |-> "auto", model |-> "large-v3-turbo", compute_type |-> "int8",
     device |-> "cuda", notifications |-> "true", sound_feedback |-> "true",
     beam_size |-> "5", debug |-> "false"]

\* the defaults inside load_config of the daemon
DaemonDefaults ==
    [hotkey |-> "ctrl", hotkey_mode |-> "hold", hold_delay |-> "0.3",
     language |-> "auto", model |-> "large-v3-turbo", beam_size |-> "5",
     notifications |-> "true", sound_feedback |-> "true"]

Defaults(prog) == IF prog = "cli" THEN DEFAULT_CONFIG ELSE DaemonDefaults

\* the keys a config file of the model may set: two that both programs know,
\* one that only the daemon knows, one that no program knows
FileKeys == {"language", "notifications", "hotkey_mode", "colour"}

FileValues(k) ==
    CASE k = "language" -> {"auto", "fr"}
      [] k = "notifications" -> {"true", "false"}
      [] k = "hotkey_mode" -> {"hold", "toggle"}
      [] k = "colour" -> {"red", "blue"}

\* what tomllib.load returns for the files that parse
FileData ==
    UNION {{f \in [S -> UNION {FileValues(k) : k \in FileKeys}] :
                \A k \in S : f[k] \in FileValues(k)} : S \in SUBSET FileKeys}

ConfigFiles ==
    {NoFile, [exists |-> TRUE, parses |-> FALSE, data |-> <<>>]}
        \cup {[exists |-> TRUE, parses |-> TRUE, data |-> d] : d \in FileData}

\* an update in which the defaults win over the file's values
Update_DefaultsWin(d, u) ==
    [k \in (DOMAIN d) \cup (DOMAIN u) |-> IF k \in DOMAIN d THEN d[k] ELSE u[k]]

\* config.update(user_config)
Update(d, u) ==
    [k \in (DOMAIN d) \cup (DOMAIN u) |-> IF k \in DOMAIN u THEN u[k] ELSE d[k]]

InitConfig ==
    /\ world = "config"
    /\ ProgOff
    /\ cprog \in {"cli", "daemon"}
    /\ cfile \in ConfigFiles
    /\ cpc = "load"
    /\ config = <<>>
    /\ cnote = "none"
    /\ HotkeyOff

\* load_config
LoadConfig ==
    /\ world = "config"
    /\ cpc = "load"
    /\ cpc' = "done"
    /\ IF ~cfile.exists
       THEN config' = Defaults(cprog) /\ cnote' = "none"
       ELSE IF cfile.parses
            THEN config' = Update(Defaults(cprog), cfile.data) /\ cnote' = "none"
            ELSE /\ config' = Defaults(cprog)
                 /\ cnote' = (IF cprog = "cli" THEN "critical" ELSE "printed")
    /\ UNCHANGED <<world, progAll, hotkeyVars, cprog, cfile>>

NextConfig == LoadConfig

\* load_config applied to every config file of the model
SpecConfig == InitConfig /\ [][NextConfig]_vars

\* ===================================================================
\* parse_hotkey and the hotkey mode of MenuBarApp.init
\* (src/macos/menubar-daemon.py)
\* ===================================================================
\* KEY_CODES and MODIFIER_KEYCODES, for the keys the model uses
KEY_CODES == [a |-> 0, space |-> 49]
MODIFIER_KEYCODES == [rctrl |-> 62, lshift |-> 56]

\* str.lower() and str.strip() on the strings the model uses
Lower(str) ==
    CASE str = "Hold" -> "hold"
      [] str = "Ctrl " -> "ctrl"
      [] OTHER -> str

\* the mask a part of the hotkey adds to modifiers
Mask(part) ==
    CASE part \in {"cmd", "command"} -> {"command"}
      [] part = "shift" -> {"shift"}
      [] part \in {"alt", "option"} -> {"alternate"}
      [] part \in {"ctrl", "control"} -> {"control"}
      [] part = "rctrl" -> {"control"}
      [] part = "lshift" -> {"shift"}
      [] OTHER -> {}

\* the value the loop of parse_hotkey leaves in a variable that parts found
\* in table assign: that of the last such part, None when there is none
RECURSIVE LastCode(_, _)
LastCode(parts, table) ==
    IF parts = <<>> THEN None
    ELSE LET last == Lower(parts[Len(parts)])
         IN IF last \in DOMAIN table THEN table[last]
            ELSE LastCode(SubSeq(parts, 1, Len(parts) - 1), table)

\* parse_hotkey: (modifiers, key_code, modifier_keycode)
parse_hotkey(parts) ==
    <<UNION {Mask(Lower(parts[i])) : i \in 1..Len(parts)},
      LastCode(parts, KEY_CODES),
      LastCode(parts, MODIFIER_KEYCODES)>>

HotkeyParts == {"Ctrl ", "shift", "rctrl", "a", "space", "bogus"}
Hotkeys == UNION {[1..n -> HotkeyParts] : n \in 1..2}
HotkeyModes == {"hold", "Hold", "toggle", "push"}

InitHotkey ==
    /\ world = "hotkey"
    /\ ProgOff
    /\ ConfOff
    /\ hkconf \in [hotkey_mode : HotkeyModes, hotkey : Hotkeys]
    /\ hkpc = "init"
    /\ hkmode = "toggle" /\ modifiers = {} /\ key_code = None /\ hold_keycode = None

\* the test `if self.key_code:` in place of `is not None`
KeyGiven_Truthy(k) == k # None /\ k # 0

\* self.key_code is not None
KeyGiven(k) == k # None

\* hotkey_mode after `if self.hotkey_mode == "hold": if self.key_code is not
\* None: self.hotkey_mode = "toggle"`
Fallback(m, k) == IF m = "hold" /\ KeyGiven(k) THEN "toggle" ELSE m

\* MenuBarApp.init, from load_config to the tests of the hotkey
AppInit ==
    /\ world = "hotkey"
    /\ hkpc = "init"
    /\ LET p == parse_hotkey(hkconf.hotkey)
           m == Fallback(Lower(hkconf.hotkey_mode), p[2])
       IN /\ modifiers' = p[1]
          /\ key_code' = p[2]
          /\ hold_keycode' = p[3]
          /\ hkmode' = m
          /\ hkpc' = IF m = "hold" /\ p[1] = {} THEN "exit"
                     ELSE IF m = "toggle" /\ ~KeyGiven(p[2]) THEN "exit"
                     ELSE "done"
    /\ UNCHANGED <<world, progAll, confVars, hkconf>>

NextHotkey == AppInit

\* MenuBarApp.init applied to every hotkey configuration of the model
SpecHotkey == InitHotkey /\ [][NextHotkey]_vars

\* ===================================================================
\* Claims about the command line program
\* ===================================================================
StartPcs == {"st_unlink", "st_popen", "st_lock_open", "st_lock_write"}

\* captures that are running
LiveCaptures == {c \in Captures : Alive(c)}

\* invocations inside transcribe_and_type
Transcribing == {p \in Procs : pc[p] = "tt_engine"}

\* C1: under every interleaving of toggle invocations at most one session is
\* in Recording (a live capture) or Processing (an invocation transcribing
\* and pasting) at any time.
C1_AtMostOneSession == Cardinality(LiveCaptures) + Cardinality(Transcribing) <= 1

\* C2: an invocation that starts after an earlier one completed
\* start_recording, with the capture still alive when it probes the lock,
\* observes the lock as held and performs the stop transition: it starts no
\* recording, interrupts the capture, removes the lock, and transcribes the
\* audio whenever stop_recording found it viable.
C2_SecondInvocationStops ==
    \A p \in Procs :
        mode[p] = "toggle" /\ entry[p] = "valid" =>
            /\ pc[p] \notin StartPcs
            /\ ret[p] # "false"
            /\ pc[p] = "done" =>
                 /\ sret[p] # "none"
                 /\ rc[p] = 0 \/ sret[p] = "true"
                 /\ lock = <<>>
                 /\ \A c \in Captures : cap[c] \notin {"starting", "recording"}
                 /\ sret[p] = "true" => ecalls[p] # 0

C2_Witness ==
    \E p \in Procs :
        /\ mode[p] = "toggle" /\ entry[p] = "valid" /\ pc[p] = "done"
        /\ sret[p] = "true" /\ ecalls[p] # 0 /\ lock = <<>>

\* C3: is_recording, called when the lock file names a process that does not
\* exist or holds unparseable text, returns false and removes the file;
\* called again (the file now absent) it returns false and the file stays absent.
C3_StaleLockHeals ==
    \A p \in Procs :
        /\ entry[p] \in {"stale", "garbage", "absent"} /\ ret[p] # "none"
              => ret[p] = "false"
        /\ entry[p] \in {"stale", "garbage", "absent"} /\ mode[p] = "status" /\ pc[p] = "done"
              => ret[p] = "false" /\ rc[p] = 0 /\ lock = <<>>

C3_Witness ==
    \E p \in Procs :
        /\ mode[p] = "status" /\ pc[p] = "done" /\ entry[p] = "stale"
        /\ ret[p] = "false" /\ lock = <<>>

\* ===================================================================
\* Claims about transcribe_and_type
\* ===================================================================
TypeEnded == tpc \in {"done", "raised"}

\* the segments transcribe_segments yields when the engine never raises
RECURSIVE Kept(_)
Kept(raw) == IF raw = <<>> THEN <<>>
             ELSE IF Strip(Head(raw)) # <<>> THEN <<Strip(Head(raw))>> \o Kept(Tail(raw))
             ELSE Kept(Tail(raw))

\* s1 unprefixed, then every later segment prefixed by one space
RECURSIVE Prefixed(_, _)
Prefixed(segs, first) ==
    IF segs = <<>> THEN <<>>
    ELSE <<IF first THEN Head(segs) ELSE <<Space>> \o Head(segs)>> \o Prefixed(Tail(segs), FALSE)

\* C4: after transcribe_and_type finishes, the clipboard holds exactly the
\* value it held before the session, whatever that value was: with zero
\* segments, with all segments pasted, and when the engine fails mid-stream.
C4_ClipboardRestored == TypeEnded => clip = clip0

\* C10: for every sequence of non-empty segments, the pastes are s1 and then
\* each later segment prefixed by one space, each pasted before the next is
\* requested; then the clipboard is restored and the segments joined by
\* single spaces are returned.
C10_StreamsAndRestores ==
    /\ yielded - Len(app) \in {0, 1}
    /\ tpc = "next" => yielded = Len(app)
    /\ tpc = "done" /\ failAt = 0 =>
          /\ app = Prefixed(Kept(stream), TRUE)
          /\ out = <<Join(Kept(stream))>>
          /\ clip = clip0

\* ===================================================================
\* Claims about the menu bar daemon
\* ===================================================================
\* C5: in the daemon no failure of an external call (recorder start or stop
\* raising, transcription failing, a pasteboard or notification call raising)
\* leaves the state at Recording or Processing; the state returns to Idle.
\* Once every handler and thread has ended, nothing can move the state away
\* from Processing, so the state must not be Processing then.
C5_FailureReturnsToIdle == Quiet => state # "processing"

\* the steps of the cycle Idle -> Recording -> Processing -> Idle
CycleSteps == {<<"loading", "idle">>, <<"idle", "recording">>,
               <<"recording", "processing">>, <<"processing", "idle">>}

\* a hotkey or menu Activate
Activate == KeyDown(TRUE) \/ MenuToggle

\* C6: in toggle mode the state moves only along Idle -> Recording ->
\* Processing -> Idle for every sequence of Activate events: an Activate in
\* Idle starts recording, the next Activate in Recording stops it, and
\* recording is never started while the state is already Recording.
C6_ToggleCycle ==
    [][hotkey_mode = "toggle" /\ ~CancelRecording =>
          /\ state' # state => <<state, state'>> \in CycleSteps
          /\ Activate /\ state = "idle" => state' = "recording" /\ mpc' = "starting"
          /\ Activate /\ state = "recording" => state' = "processing" /\ mpc' = "stopping"
          /\ mpc # "starting" /\ mpc' = "starting" => state = "idle"]_vars

C6_Witness ==
    /\ hotkey_mode = "toggle"
    /\ state = "idle" /\ stopRes = "audio" /\ Quiet

\* C7: in hold mode, when the modifiers went down and a key-down is handled
\* before the activation Timer fires, that gesture never starts recording,
\* under every interleaving of the event handlers and the Timer threads.
C7_KeyDownBlocksGesture ==
    [][blocked => \A t \in Timers : ~(timer[t] = "call" /\ timer'[t] = "start")]_vars

\* C8: in hold mode, with the modifiers held longer than hold_delay and no
\* other key pressed, recording is started exactly once, by the Timer after
\* the delay, not by the handler of the modifier press and not by the
\* handler of the modifier release.
C8_TimerStartsOnce ==
    /\ [](/\ gclean /\ gphase = "armed" => gstarts = 0 /\ state = "idle"
          /\ gclean /\ gphase = "run" => gstarts <= 1
          /\ gclean /\ gphase = "done" => gstarts = 1 /\ state = "recording")
    /\ [][(\E b \in BOOLEAN : FlagsChanged(b)) =>
             /\ mpc' # "starting"
             /\ state' = "recording" => state = "recording"
             /\ recVars' = recVars]_vars

C8_Witness ==
    /\ hotkey_mode = "hold"
    /\ gclean /\ held /\ gphase = "done"
    /\ gstarts = 1 /\ state = "recording" /\ sactive

\* ===================================================================
\* Claims about the stop transition
\* ===================================================================
\* the invocation that ran last
Latest(p) == entry[p] # "any"

\* C9: when the stop transition finds the audio file missing or of at most
\* 44 bytes (command line program), or no captured frames (daemon), the
\* session returns to Idle, the engine is never called and nothing is pasted.
C9_NoAudioNoEngine ==
    /\ [](\A p \in Procs : sret[p] = "false" =>
             /\ pc[p] = "done"
             /\ ecalls[p] = 0
             /\ ~pasted[p]
             /\ Latest(p) => lock = <<>>)
    /\ [][mpc = "stopping" /\ mpc' = "loop" /\ StopResult("ok") = "empty" =>
             /\ state' = "idle"
             /\ wk' = wk]_vars

C9_Witness ==
    \E p \in Procs :
        /\ mode[p] = "toggle" /\ Latest(p)
        /\ ret[p] = "true" /\ sret[p] = "false"
        /\ audio # <<>> /\ audio[2] = WavHeaderSize
        /\ pc[p] = "done" /\ lock = <<>>

\* ===================================================================
\* Claims about an engine failure in the command line program
\* ===================================================================
\* the segments of the engine before the one at which it raises
BeforeFailure == SubSeq(stream, 1, failAt - 1)

\* C11: when the engine fails after k >= 0 segments were pasted in a stop
\* invocation, the k pastes stay, no further segment is pasted, a critical
\* notification is raised, the lock is already released and the process
\* exits with a non-zero code.
C11_EngineFailure ==
    /\ \A p \in Procs : eres[p] = "fail" =>
          /\ note[p] = "critical"
          /\ pc[p] = "done" => rc[p] # 0
          /\ Latest(p) => lock = <<>>
    /\ failAt \in 1..Len(stream) /\ tpc \in {"restore", "raised"} =>
          /\ app = Prefixed(Kept(BeforeFailure), TRUE)
          /\ typed = Kept(BeforeFailure)
          /\ out = <<"raised">>

C11_Witness ==
    /\ tpc = "raised"
    /\ failAt \in 2..Len(stream)
    /\ Len(app) >= 1

\* ===================================================================
\* Claims about the triggers of the menu bar daemon
\* ===================================================================
\* a handler of the main thread runs for a hotkey or menu event
Trigger ==
    \/ \E m \in BOOLEAN : KeyDown(m)
    \/ MenuToggle
    \/ CancelRecording
    \/ \E b \in BOOLEAN : FlagsChanged(b)

\* the step arms no Timer and sets no pending activation
NothingQueued ==
    /\ \A t \in Timers : timer'[t] = "armed" => timer[t] = "armed"
    /\ hold_pending' => hold_pending

\* C12: while the daemon is in Processing, every trigger (toggle key-down,
\* hold-mode modifier press or release, menu toggle, menu cancel) leaves the
\* state unchanged, starts no recording and no second transcription, and
\* queues nothing that would take effect after Processing.
C12_ProcessingIgnoresTriggers ==
    [][state = "processing" /\ Trigger =>
          /\ state' = "processing"
          /\ mpc' = "loop"
          /\ wk' = wk
          /\ recVars' = recVars
          /\ NothingQueued]_vars

C12_Witness ==
    /\ hotkey_mode = "hold"
    /\ state = "processing" /\ mpc = "loop"
    /\ \E w \in Workers : wk[w] # "off"
    /\ held /\ hold_active /\ ~hold_pending /\ gphase = "none"

\* C13: while the daemon is in Loading no hotkey event starts a recording,
\* a modifier press arms no hold Timer (so none is armed or fires there), and
\* the state leaves Loading only through the model-loaded callback.
C13_LoadingIgnoresHotkeys ==
    /\ [](state = "loading" =>
             /\ \A t \in Timers : timer[t] = "free"
             /\ ~hold_pending /\ hold_timer = 0
             /\ mpc = "loop"
             /\ ~recording /\ ~hasStream
             /\ \A w \in Workers : wk[w] = "off")
    /\ [][state = "loading" /\ state' # "loading" =>
             /\ state' = "idle"
             /\ model_loading /\ ~model_loading'
             /\ ~Trigger]_vars

C13_Witness ==
    /\ hotkey_mode = "hold"
    /\ state = "loading"
    /\ held /\ hold_active

\* C14: a Cancel received in Recording moves the state to Idle, discards the
\* captured audio and hands nothing to the speech engine or to the paste; a
\* Cancel received in any other state changes nothing.
C14_CancelDiscards ==
    [][CancelRecording =>
          IF state = "recording"
          THEN /\ state' = "idle"
               /\ ~frames' /\ ~recording' /\ ~sactive'
               /\ wk' = wk
               /\ mpc' = "loop"
          ELSE progVars' = progVars]_vars

C14_Witness ==
    /\ state = "idle" /\ Quiet
    /\ hasStream /\ ~sactive /\ ~recording /\ ~frames
    /\ stopRes = "none"

\* ===================================================================
\* Claims about --stop, --status and the audio file
\* ===================================================================
\* a capture process that was started and not yet interrupted
Capturing == {c \in Captures : cap[c] \in {"starting", "recording"}}

\* C15: an invocation with --stop exits with code 0 in every case; when a
\* recording is in progress it interrupts the capture process, releases the
\* lock and discards the audio file, and the cancelled audio is never
\* transcribed or pasted; when idle it changes nothing.
C15_StopCancels ==
    \A p \in Procs : mode[p] = "stop" /\ pc[p] = "done" /\ Latest(p) =>
        /\ rc[p] = 0
        /\ ecalls[p] = 0 /\ ~pasted[p]
        /\ ret[p] = "true" =>
              /\ lock = <<>>
              /\ Capturing = {}
              /\ audio = <<>>

\* a step of invocation p
StepOf(p) == pc'[p] # pc[p]

\* C16: an invocation with --status reports Recording exactly when the lock
\* is valid and Idle otherwise, exits with code 0, never starts or signals a
\* capture process, and leaves a valid lock file and the audio file unchanged.
C16_StatusReadsOnly ==
    /\ [](\A p \in Procs : mode[p] = "status" /\ Latest(p) =>
             /\ pc[p] \notin StartPcs
             /\ child[p] = 0
             /\ ret[p] = "true" => entry[p] = "valid"
             /\ ret[p] = "false" => entry[p] # "valid"
             /\ pc[p] = "done" => rc[p] = 0 /\ ret[p] # "none" /\ sret[p] = "none")
    /\ [][\A p \in Procs : mode'[p] = "status" /\ StepOf(p) =>
             /\ cap' = cap
             /\ audio' = audio
             /\ LockValid => lock' = lock]_vars

C16_Witness ==
    \E p \in Procs :
        /\ mode[p] = "status" /\ Latest(p) /\ pc[p] = "done"
        /\ ret[p] = "true" /\ rc[p] = 0
        /\ LockValid /\ audio # <<>>

\* invocations that ended a session: a stop (toggle on a valid lock) or --stop
EndedSession(p) ==
    /\ mode[p] \in {"toggle", "stop"}
    /\ ret[p] = "true"
    /\ pc[p] = "done"
    /\ Latest(p)

\* C17: after every CLI session ends (stop with success, stop with engine
\* failure, stop with no viable audio, --stop) the audio file no longer exists.
C17_AudioRemoved ==
    \A p \in Procs : EndedSession(p) => audio = <<>>

\* C18: when a stop finds no viable audio and notifications are enabled, a
\* "no speech" notification is raised before the invocation returns to Idle.
C18_NoSpeechNotified ==
    \A p \in Procs :
        EndedSession(p) /\ mode[p] = "toggle" /\ sret[p] = "false" /\ notifications
            => note[p] = "nospeech"

\* ===================================================================
\* Claims about the daemon's threads
\* ===================================================================
\* the steps the main (run loop) thread takes: event monitors and menu items
MainThreadStep ==
    \/ \E m \in BOOLEAN : KeyDown(m)
    \/ MenuToggle
    \/ CancelRecording
    \/ \E o \in StartOutcomes : MainRecorderStart(o)
    \/ \E o \in {"ok", "write_fails"} : MainRecorderStop(o)
    \/ \E b \in BOOLEAN : FlagsChanged(b)

\* the fields the claim reserves to the main thread
mainFields == <<state, hold_pending, hold_active, hold_timer>>

\* C19: every write to state, hold_pending, hold_active and _hold_timer is
\* performed by the main thread; timer, loader and worker threads never
\* write these fields.
C19_MainThreadWrites ==
    [][mainFields' # mainFields => MainThreadStep]_vars

\* C20: every daemon session that reaches Processing has the clipboard
\* restored to its pre-session value before the daemon is back in Idle; the
\* transcription text does not remain in the clipboard.
C20_ClipboardRestored ==
    state = "idle" /\ Quiet /\ stopRes = "audio" => pasteboard = "pre"

C22_ClipboardBeforeKeystroke ==
    [][/\ TyKey => clip = PasteArg(typed, cur)
       /\ tpc = "settle" => clip' = clip]_vars

\* ===================================================================
\* Claims about the bounded wait of stop_recording
\* ===================================================================
StopPcs == {"sr_exists", "sr_read", "sr_kill", "sr_poll", "sr_unlink", "sr_aexists", "sr_astat"}

\* AUDIO_FILE.exists() and AUDIO_FILE.stat().st_size > 44, as the file is now
ViableNow == audio # <<>> /\ Viable(audio[2])

C24_StartKeepsValidLock ==
    [][\A p \in Procs :
          pc[p] \in {"st_lock_open", "st_lock_write"} /\ StepOf(p) /\ lock' # lock
              => ~LockValid]_vars

\* ===================================================================
\* Claims about the hold gesture
\* ===================================================================
\* the modifiers are released while the gesture is pending: its Timer is
\* armed and has not fired
ReleaseWhilePending ==
    /\ FlagsChanged(FALSE)
    /\ hold_active /\ hold_pending
    /\ gphase = "armed" /\ timer[gtimer] = "armed"

\* C25: in hold mode, when the modifiers are released while the gesture is
\* still pending, the Timer is cancelled, the gesture is idle again, and the
\* press/release pair has neither started nor stopped a recording.
C25_ReleaseCancelsPending ==
    [][ReleaseWhilePending =>
          /\ timer'[gtimer] = "free"
          /\ ~hold_pending' /\ ~hold_active' /\ hold_timer' = 0
          /\ state' = state /\ mpc' = "loop"
          /\ recVars' = recVars /\ wk' = wk]_vars

\* the callback of Timer t returns from start_recording
TimerReturns(t) == timer[t] = "start" /\ timer'[t] = "free"

\* C26: in hold mode the release of the modifiers during a recording stops
\* and transcribes it, and under every interleaving of the Timer thread and
\* the release handler the daemon is not left in Recording once the release
\* has been handled and the Timer callback has finished.
C26_ReleaseStopsRecording ==
    [][/\ FlagsChanged(FALSE) /\ hold_active /\ ~hold_pending /\ state = "recording" =>
             state' = "processing" /\ mpc' = "stopping"
       /\ \A t \in Timers :
             TimerReturns(t) /\ ~held /\ ~hold_active => state' # "recording"]_vars

\* a Timer is armed in this step
Arms == \E t \in Timers : timer[t] # "armed" /\ timer'[t] = "armed"

\* C27: in hold mode a Timer is armed only by a modifier event that newly
\* satisfies the modifier set: the set was not satisfied before the event.
\* After a key-down has cancelled a pending gesture no Timer is armed until
\* the modifiers have been released and pressed again.
C27_ArmedByNewPress ==
    [][Arms => FlagsChanged(TRUE) /\ ~held]_vars

\* ===================================================================
\* Claims about the hotkey mode
\* ===================================================================
\* the configured hotkey names a key that is not a modifier
NamesKey == \E i \in 1..Len(hkconf.hotkey) : hkconf.hotkey[i] \in {"a", "space"}

\* the configured hotkey names a modifier
NamesModifier ==
    \E i \in 1..Len(hkconf.hotkey) : hkconf.hotkey[i] \in {"Ctrl ", "shift", "rctrl"}

Outstanding == hold_timer # 0 /\ timer[hold_timer] \in {"armed", "fired", "then", "else"}

\* C29: in every reachable state of the daemon, under every interleaving of
\* the event handlers and the Timer thread, hold_pending implies that a hold
\* timer is outstanding: _hold_timer is set to a started Timer that has been
\* neither cancelled nor completed.
C29_PendingHasTimer == world = "daemon" /\ hold_pending => Outstanding

\* ===================================================================
\* Claims about a capture that cannot be launched
\* ===================================================================
\* the launch of the capture fails in invocation p
LaunchFails(p) == pc[p] = "st_popen" /\ pc'[p] = "done"

C31_NoOrphanCapture ==
    (\A p \in Procs : ~InProgress(p)) =>
        \A c \in LiveCaptures : lock # <<>> /\ ParsePid(lock[1]) = c

\* C32: each recording is transcribed at most once: under every interleaving
\* of invocations, the audio of one recording is never passed to the speech
\* engine by more than one invocation.
C32_TranscribedOnce ==
    \A p, q \in Procs : p # q /\ ecalls[p] # 0 => ecalls[q] # ecalls[p]

\* C33: the cleanup of an invocation deletes only the audio file of the
\* recording it stopped and transcribed: it never removes the file of a
\* recording started meanwhile, and a new start never removes the audio file
\* while an earlier invocation has still to transcribe it.
C33_CleanupOwnAudio ==
    [][\A p \in Procs :
         /\ pc[p] = "cleanup" /\ StepOf(p) /\ audio # <<>> => audio[1] = ecalls[p]
         /\ pc[p] = "st_unlink" /\ StepOf(p) /\ Transcribing # {} => audio = <<>>]_vars

\* C34: is_recording and stop_recording complete without an uncaught error
\* when another invocation removes the lock file or the audio file between
\* their test of existence and the read or stat that follows: the removal is
\* treated as "not recording" or "no audio captured".
C34_RemovalTolerated ==
    [][\A p \in Procs : StepOf(p) =>
         /\ pc[p] \in {"ir_read", "sr_read", "sr_astat"} => ~(pc'[p] = "done" /\ rc'[p] = 1)
         /\ pc[p] = "sr_astat" /\ audio = <<>> => sret'[p] = "false"]_vars

\* ===================================================================
\* Claims about the session state of the daemon
\* ===================================================================
\* C35: the session state of the daemon changes only along Loading->Idle,
\* Idle->Recording, Recording->Processing, Recording->Idle and
\* Processing->Idle, under every interleaving of the event handlers, the
\* Timer threads and the worker threads.
C35_StateTransitions ==
    [][state' # state =>
         <<state, state'>> \in {<<"loading", "idle">>, <<"idle", "recording">>,
                                <<"recording", "processing">>, <<"recording", "idle">>,
                                <<"processing", "idle">>}]_vars

\* AudioRecorder.start returns, on the main thread or on a Timer thread
StartCalled ==
    \/ mpc = "starting" /\ mpc' = "loop"
    \/ \E t \in Timers : timer[t] = "start" /\ timer'[t] = "free"

\* C36: AudioRecorder.start is never called while an input stream started
\* before is still open, and AudioRecorder.stop is called only after a start
\* that has not yet been stopped or cancelled, under every interleaving of
\* the Timer thread with the triggers of the main thread.
C36_RecorderCallsPaired ==
    [][/\ StartCalled => ~sactive
       /\ mpc = "stopping" /\ mpc' = "loop" => recording]_vars

\* Timer t belongs to a gesture that a release or a key-down ended after t
\* had fired, and a later gesture has armed its own Timer
Stale(t) ==
    /\ timer[t] \in {"fired", "else", "else2"}
    /\ hold_timer \notin {0, t} /\ timer[hold_timer] = "armed"

\* C37: a hold Timer of a gesture that was already cancelled never affects a
\* later gesture: its callback does not pass its test on the later gesture's
\* flags (it would start recording before that gesture's delay is over), and
\* it never clears the later gesture's hold_pending or _hold_timer.
C37_StaleTimerHarmless ==
    [][\A t \in Timers : Stale(t) /\ timer'[t] # timer[t] =>
         /\ timer'[t] # "then"
         /\ hold_pending' = hold_pending
         /\ hold_timer' = hold_timer]_vars

\* ===================================================================
\* Claims about segments without text
\* ===================================================================
\* C38: segments whose text is empty after strip() are never pasted and never
\* counted: they cause no paste and no clipboard change, give no later
\* segment a separating space it would not get otherwise, and are absent from
\* the returned text; a stream of such segments alone returns the empty text.
C38_EmptySegmentsSkipped ==
    /\ \A k \in 1..Len(typed) : typed[k] # <<>>
    /\ \A k \in 1..Len(app) : app[k] \notin {<<>>, <<Space>>}
    /\ failAt = 0 /\ tpc = "next" =>
          /\ typed = Kept(SubSeq(stream, 1, pos))
          /\ yielded = Len(typed)
          /\ app = Prefixed(typed, TRUE)
    /\ failAt = 0 /\ tpc = "done" /\ Kept(stream) = <<>> =>
          /\ yielded = 0 /\ app = <<>>
          /\ clip = clip0
          /\ out = <<<<>>>>

C38_Witness ==
    /\ tpc = "done" /\ failAt = 0
    /\ stream = << <<Space>>, <<Space, "b">>, <<>> >>
    /\ app = << <<"b">> >>
    /\ out = << <<"b">> >>

\* ===================================================================
\* Claims about a speech engine that does not load
\* ===================================================================
\* load_whisper_model has returned without calling back
LoadFailed == state = "loading" /\ ~model_loading

\* C39: if loading the speech engine fails, the model-loaded callback is
\* never invoked: the state stays Loading forever, no later hotkey or menu
\* trigger starts a recording, and the load is not tried again.
C39_FailedLoadStaysLoading ==
    [][/\ ModelLoadFails => LoadFailed'
       /\ LoadFailed =>
            /\ LoadFailed'
            /\ mpc' = "loop" /\ recVars' = recVars
            /\ timer' = timer /\ wk' = wk]_vars

C39_Witness ==
    /\ LoadFailed
    /\ hotkey_mode = "hold" /\ held /\ hold_active
    /\ ~hold_pending /\ hold_timer = 0 /\ ~recording
====
